---- MODULE Spec2Model ----
(***************************************************************************)
(* Model of the campus-revival backend routes (models/routes/api.js) over  *)
(* the School, Adoption and Journal collections (models/school.js,         *)
(* models/adoption.js) and the token blacklist.  Every await on the        *)
(* document store is one atomic step of a request; requests interleave     *)
(* between their steps.  A route behind protect is modelled for the user   *)
(* protect resolved; the gate itself is modelled with GET /me and          *)
(* POST /logout.                                                           *)
(***************************************************************************)
EXTENDS Integers, Sequences, FiniteSets, TLC

VARIABLES
    schools,     \* School collection: _id -> document
    adoptions,   \* Adoption collection: set of documents [id, userId, schoolId]
    areq,        \* POST /adoptions requests: slot -> handler position and response
    sresp,       \* response of the latest POST /schools
    journal,     \* Journal collection: set of documents [id, userId, entryText, schoolId, date]
    nextEntry,   \* number of Journal documents ever created
    now,         \* Date.now(), in clock ticks
    dreq,        \* DELETE /journal/:id requests: slot -> handler position and response
    jresp,       \* response of the latest POST /journal or GET /journal
    issued,      \* tokens signed by /login
    revoked,     \* the token blacklist kept by middleware/auth
    lresp,       \* response of the latest POST /login
    preq         \* GET /me and POST /logout requests: slot -> position and response

vars == <<schools, adoptions, areq, sresp, journal, nextEntry, now, dreq, jresp,
          issued, revoked, lresp, preq>>

ledgerVars  == <<schools, adoptions, areq, sresp>>
journalVars == <<journal, nextEntry, now, dreq, jresp>>
authVars    == <<issued, revoked, lresp, preq>>

----------------------------------------------------------------------------
(* Bounds *)
MaxReqs    == 2   \* POST /adoptions requests ever issued
MaxEntries == 2   \* Journal documents ever created
MaxDels    == 2   \* DELETE /journal/:id requests ever issued
MaxTime    == 1   \* clock ticks
MaxAuth    == 2   \* GET /me and POST /logout requests ever issued
TokenTTL   == 1   \* clock ticks a token lives: the expiresIn of jwt.sign

Reqs == 1..MaxReqs

\* The accounts the seed script creates: admin@crm.org and john@example.com
Users == {"admin", "john"}

\* role: 'admin' for admin@crm.org, 'adopter' for john@example.com
Role(u) == IF u = "admin" THEN "admin" ELSE "adopter"

\* adopterId: { default: null }
Null == "null"

\* An optional JSON field: <<>> when the key is absent, <<v>> when present.
None    == <<>>
Some(v) == <<v>>

----------------------------------------------------------------------------
(* Strings are sequences of one-character strings. *)

IsSpace(c) == c = " "

RECURSIVE TrimStart(_)
TrimStart(s) ==
    IF s = <<>> THEN <<>>
    ELSE IF IsSpace(Head(s)) THEN TrimStart(Tail(s)) ELSE s

RECURSIVE TrimEnd(_)
TrimEnd(s) ==
    IF s = <<>> THEN <<>>
    ELSE IF IsSpace(s[Len(s)]) THEN TrimEnd(SubSeq(s, 1, Len(s) - 1)) ELSE s

\* String.prototype.trim / the schema option trim: true
Trim(s) == TrimEnd(TrimStart(s))

----------------------------------------------------------------------------
(* School Registry: models/school.js and POST /schools *)

MaxLat     == 90
MaxLng     == 180
MaxDescLen == 2000

NoResp == [status |-> 0, error |-> "", message |-> ""]

\* Request bodies of POST /schools.  description is carried as its length.
BaseBody ==
    [name |-> Some(<<"A">>), lat |-> Some(0), lng |-> Some(0),
     address |-> Some(<<"Y">>), description |-> None,
     adopted |-> None, adopterId |-> None]

RawNames == {<<>>, <<" ">>, <<"A">>, <<" ", "A", " ">>, <<"B">>}

\* School _ids in creation order; the unique index on name lets no more
\* schools exist than there are names
SchoolIds == 1..Cardinality({Trim(n) : n \in RawNames} \ {<<>>})

SchoolBodies ==
       {[BaseBody EXCEPT !.name = n] : n \in {None} \cup {Some(x) : x \in RawNames}}
  \cup {[BaseBody EXCEPT !.lat = l] :
            l \in {None, Some(-MaxLat), Some(-MaxLat - 1), Some(MaxLat + 1)}}
  \cup {[BaseBody EXCEPT !.lng = l] :
            l \in {None, Some(MaxLng), Some(-MaxLng - 1), Some(MaxLng + 1)}}
  \cup {[BaseBody EXCEPT !.address = a] : a \in {None, Some(<<" ">>)}}
  \cup {[BaseBody EXCEPT !.description = d] :
            d \in {Some(MaxDescLen), Some(MaxDescLen + 1)}}
  \cup {[BaseBody EXCEPT !.name = Some(n), !.adopted = a, !.adopterId = i] :
            n \in {<<"A">>, <<"B">>},
            a \in {None, Some(TRUE), Some(FALSE)},
            i \in {None} \cup {Some(u) : u \in Users}}

\* required: true on a String path rejects undefined and the empty string,
\* after trim: true has been applied
RequiredString(f) == f # None /\ Trim(f[1]) # <<>>

RequiredNumber(f, lo, hi) == f # None /\ lo <= f[1] /\ f[1] <= hi

\* schoolSchema's validators
SchoolValid(body) ==
    /\ RequiredString(body.name)
    /\ RequiredNumber(body.lat, -MaxLat, MaxLat)
    /\ RequiredNumber(body.lng, -MaxLng, MaxLng)
    /\ RequiredString(body.address)
    /\ (body.description = None \/ body.description[1] <= MaxDescLen)

\* the unique index on name
NameTaken(n) == \E i \in DOMAIN schools : schools[i].name = n

\* the document School.create builds from a body: the schema's setters and
\* defaults applied to every schema path the body carries
SchoolDoc(body) ==
    [name     |-> Trim(body.name[1]),
     lat      |-> body.lat[1],
     lng      |-> body.lng[1],
     address  |-> Trim(body.address[1]),
     adopted  |-> IF body.adopted = None THEN FALSE ELSE body.adopted[1],
     adopterId |-> IF body.adopterId = None THEN Null ELSE body.adopterId[1]]

\* adminOnly: the request passes when req.user.role is 'admin'
AdminOnly(u) == Role(u) = "admin"

\* router.post('/schools', protect, adminOnly, ...) for the user protect resolved
PostSchools(u, body) ==
    /\ IF ~AdminOnly(u)
       THEN /\ sresp' = [status |-> 403, error |-> "Not authorized as admin",
                         message |-> ""]
            /\ UNCHANGED schools
       ELSE IF ~SchoolValid(body)
       THEN /\ sresp' = [status |-> 500, error |-> "Failed to create school",
                         message |-> "ValidationError"]
            /\ UNCHANGED schools
       ELSE IF NameTaken(Trim(body.name[1]))
       THEN /\ sresp' = [status |-> 500, error |-> "Failed to create school",
                         message |-> "E11000"]
            /\ UNCHANGED schools
       ELSE /\ schools' = schools @@
                   ((Cardinality(DOMAIN schools) + 1) :> SchoolDoc(body))
            /\ sresp' = [status |-> 201, error |-> "", message |-> "School created"]
    /\ UNCHANGED <<adoptions, areq, journalVars, authVars>>

----------------------------------------------------------------------------
(* Adoption Ledger: models/adoption.js and POST /adoptions *)

IdleReq == [pc |-> "idle", userId |-> Null, schoolId |-> None,
            status |-> 0, error |-> "", dup |-> FALSE]

Respond(r, st, err) ==
    areq' = [areq EXCEPT ![r].pc = "done", ![r].status = st, ![r].error = err]

DuplicateKeyNoIndex(u, s) == FALSE

\* adoptionSchema.index({ userId: 1, schoolId: 1 }, { unique: true })
DuplicateKey(u, s) ==
    \E a \in adoptions : a.userId = u /\ a.schoolId = s

\* if (school.adopted), for the school read and the requesting user
AlreadyAdoptedByOwnerOnly(school, u) == school.adopted /\ school.adopterId = u

AlreadyAdopted(school, u) == school.adopted

\* Lines 236-258: the body check, School.findById and the adopted check.
\* dup records whether an Adoption (u, s) existed when the request read the school.
PostAdoptionsFind(r, u, sid) ==
    /\ areq[r].pc = "idle"
    /\ IF r = 1 THEN TRUE ELSE areq[r - 1].pc # "idle"
    /\ LET q == [areq[r] EXCEPT !.userId = u, !.schoolId = sid,
                     !.dup = (sid # None /\
                              \E a \in adoptions : a.userId = u /\ a.schoolId = sid[1])]
           done(st, err) ==
               areq' = [areq EXCEPT ![r] =
                           [q EXCEPT !.pc = "done", !.status = st, !.error = err]]
       IN IF sid = None
          THEN done(400, "School ID is required")
          ELSE IF sid[1] \notin DOMAIN schools
          THEN done(404, "School not found")
          ELSE IF AlreadyAdopted(schools[sid[1]], u)
          THEN done(400, "School is already adopted by another user")
          ELSE areq' = [areq EXCEPT ![r] = [q EXCEPT !.pc = "found"]]
    /\ UNCHANGED <<schools, adoptions, sresp, journalVars, authVars>>

OnDuplicateKeyInternal(r) == Respond(r, 500, "Failed to adopt school")

\* catch (error) { if (error.code === 11000) ... 400 }
OnDuplicateKey(r) == Respond(r, 400, "You have already adopted this school")

\* Lines 260-263 and the catch at 278-283: Adoption.create
PostAdoptionsCreate(r) ==
    /\ areq[r].pc = "found"
    /\ LET u == areq[r].userId
           s == areq[r].schoolId[1]
       IN IF DuplicateKey(u, s)
          THEN /\ OnDuplicateKey(r)
               /\ UNCHANGED adoptions
          ELSE /\ adoptions' = adoptions \cup
                      {[id |-> r, userId |-> u, schoolId |-> s]}
               /\ areq' = [areq EXCEPT ![r].pc = "created"]
    /\ UNCHANGED <<schools, sresp, journalVars, authVars>>

\* Lines 265-267: school.save() writes the two modified paths in one update
PostAdoptionsSave(r) ==
    /\ areq[r].pc = "created"
    /\ schools' = [schools EXCEPT
           ![areq[r].schoolId[1]].adopted = TRUE,
           ![areq[r].schoolId[1]].adopterId = areq[r].userId]
    /\ areq' = [areq EXCEPT ![r].pc = "saved"]
    /\ UNCHANGED <<adoptions, sresp, journalVars, authVars>>

\* Lines 270-276: adoption.populate and the 201 response
PostAdoptionsRespond(r) ==
    /\ areq[r].pc = "saved"
    /\ Respond(r, 201, "")
    /\ UNCHANGED <<schools, adoptions, sresp, journalVars, authVars>>

----------------------------------------------------------------------------
(* Journal Store: GET /journal, POST /journal and DELETE /journal/:id *)

Dels     == 1..MaxDels
EntryIds == 1..MaxEntries

\* const { schoolId, limit = 50 } = req.query
DefaultLimit == 50

RawTexts == {<<>>, <<" ">>, <<" ", "a", " ">>, <<"b">>}

\* A Journal document's schoolId is None for null
NoEntry == [id |-> 0, userId |-> Null, entryText |-> <<>>, schoolId |-> None,
            date |-> 0]

NoJournalResp ==
    [route |-> "", userId |-> Null, entryText |-> None, schoolId |-> None,
     limit |-> None, status |-> 0, error |-> "", entry |-> NoEntry,
     entries |-> <<>>]

\* Date.now() moves on between requests
Tick ==
    /\ now < MaxTime
    /\ now' = now + 1
    /\ UNCHANGED <<ledgerVars, journal, nextEntry, dreq, jresp, authVars>>

\* if (!entryText || entryText.trim().length === 0)
EntryTextMissing(t) == t = None \/ t[1] = <<>> \/ Len(Trim(t[1])) = 0

StoredTextRaw(t) == t

\* entryText: entryText.trim()
StoredText(t) == Trim(t)

\* router.post('/journal', protect, ...) for the user protect resolved
PostJournal(u, t, sid) ==
    LET rq == [NoJournalResp EXCEPT !.route = "POST /journal", !.userId = u,
                   !.entryText = t, !.schoolId = sid]
    IN IF EntryTextMissing(t)
       THEN /\ jresp' = [rq EXCEPT !.status = 400,
                             !.error = "Journal entry text is required"]
            /\ UNCHANGED <<ledgerVars, journal, nextEntry, now, dreq, authVars>>
       ELSE /\ nextEntry < MaxEntries
            /\ LET e == [id |-> nextEntry + 1, userId |-> u,
                         entryText |-> StoredText(t[1]),
                         schoolId |-> sid,
                         date |-> now]
               IN /\ journal' = journal \cup {e}
                  /\ jresp' = [rq EXCEPT !.status = 201, !.entry = e]
            /\ nextEntry' = nextEntry + 1
            /\ UNCHANGED <<ledgerVars, now, dreq, authVars>>

\* const query = { userId: req.user._id }; if (schoolId) query.schoolId = schoolId
Query(u, sid) ==
    {e \in journal : e.userId = u /\ (sid # None => e.schoolId = sid)}

\* .sort({ date: -1 }): every order of the matching documents that is
\* descending in date; documents of equal date come in any order
SortedByDateDesc(S) ==
    {f \in [1..Cardinality(S) -> S] :
        /\ \A i, j \in 1..Cardinality(S) : i # j => f[i] # f[j]
        /\ \A i, j \in 1..Cardinality(S) : i < j => f[i].date >= f[j].date}

\* .limit(parseInt(limit))
Limit(f, lim) ==
    LET n == IF lim = None THEN DefaultLimit ELSE lim[1]
    IN SubSeq(f, 1, IF Len(f) < n THEN Len(f) ELSE n)

\* router.get('/journal', protect, ...) for the user protect resolved
GetJournal(u, sid, lim) ==
    /\ \E f \in SortedByDateDesc(Query(u, sid)) :
          jresp' = [NoJournalResp EXCEPT !.route = "GET /journal", !.userId = u,
                        !.schoolId = sid, !.limit = lim, !.status = 200,
                        !.entries = Limit(f, lim)]
    /\ UNCHANGED <<ledgerVars, journal, nextEntry, now, dreq, authVars>>

IdleDel == [pc |-> "idle", userId |-> Null, id |-> 0, status |-> 0, error |-> ""]

FindOneAnyUser(id, u) == {e \in journal : e.id = id}

\* Journal.findOne({ _id: req.params.id, userId: req.user._id })
FindOne(id, u) == {e \in journal : e.id = id /\ e.userId = u}

\* Lines 358-368 of router.delete('/journal/:id'): the lookup and the 404
DeleteJournalFind(d, u, id) ==
    /\ dreq[d].pc = "idle"
    /\ IF d = 1 THEN TRUE ELSE dreq[d - 1].pc # "idle"
    /\ IF FindOne(id, u) = {}
       THEN dreq' = [dreq EXCEPT ![d] =
                [pc |-> "done", userId |-> u, id |-> id, status |-> 404,
                 error |-> "Journal entry not found"]]
       ELSE dreq' = [dreq EXCEPT ![d] =
                [pc |-> "found", userId |-> u, id |-> id, status |-> 0,
                 error |-> ""]]
    /\ UNCHANGED <<ledgerVars, journal, nextEntry, now, jresp, authVars>>

\* Lines 370-375: entry.deleteOne() removes the document of that _id, if it
\* is still there, and the handler answers 200
DeleteJournalDelete(d) ==
    /\ dreq[d].pc = "found"
    /\ journal' = {e \in journal : e.id # dreq[d].id}
    /\ dreq' = [dreq EXCEPT ![d].pc = "done", ![d].status = 200]
    /\ UNCHANGED <<ledgerVars, nextEntry, now, jresp, authVars>>

----------------------------------------------------------------------------
(* Token Issuer/Validator: POST /login, the protect gate, GET /me and       *)
(* POST /logout                                                             *)

AuthReqs == 1..MaxAuth

\* The seeded accounts' credentials
Email(u)    == IF u = "admin" THEN "admin@crm.org" ELSE "john@example.com"
Password(u) == IF u = "admin" THEN "admin123" ELSE "password123"

\* Request bodies of POST /login: <<email, password>>
LoginBodies ==
    {<<"not-an-email", "admin123">>, <<"admin@crm.org", "">>,
     <<"mike@example.com", "password123">>, <<"admin@crm.org", "password123">>,
     <<"admin@crm.org", "admin123">>, <<"john@example.com", "password123">>}

\* The response of POST /login: its status, its error and the user it names.
\* The token of a 200 response is the one the request adds to issued.
NoLoginResp == [status |-> 0, error |-> "", userId |-> Null]

\* jwt.sign({ id: user._id }, process.env.JWT_SECRET, { expiresIn }) at the
\* current time
Sign(u) == [id |-> u, iat |-> now, sig |-> "JWT_SECRET"]

\* A token a client made up for the admin, without the secret
Forged == [id |-> "admin", iat |-> 0, sig |-> "forged"]

\* router.post('/login', ...)
Login(email, password) ==
    /\ IF email = "not-an-email" \/ password = ""
       THEN /\ lresp' = [NoLoginResp EXCEPT !.status = 400, !.error = "validation"]
            /\ UNCHANGED issued
       ELSE IF ~\E u \in Users : Email(u) = email
       THEN /\ lresp' = [NoLoginResp EXCEPT !.status = 401,
                             !.error = "Invalid credentials"]
            /\ UNCHANGED issued
       ELSE LET u == CHOOSE x \in Users : Email(x) = email
            IN IF Password(u) # password
               THEN /\ lresp' = [NoLoginResp EXCEPT !.status = 401,
                                     !.error = "Invalid credentials"]
                    /\ UNCHANGED issued
               ELSE /\ lresp' = [NoLoginResp EXCEPT !.status = 200,
                                     !.userId = u]
                    /\ issued' = issued \cup {Sign(u)}
    /\ UNCHANGED <<ledgerVars, journalVars, revoked, preq>>

Expired(t) == now >= t.iat + TokenTTL

\* validate(token): the error of the token, "" when it resolves to a user
Validate(t) ==
    IF t = None \/ t[1].sig # "JWT_SECRET" THEN "InvalidToken"
    ELSE IF Expired(t[1]) THEN "ExpiredToken"
    ELSE IF t[1] \in revoked THEN "RevokedToken"
    ELSE ""

IdleAuth == [pc |-> "idle", route |-> "", token |-> None, userId |-> Null,
             status |-> 0, error |-> ""]

\* protect, in front of GET /me and POST /logout: 401 or req.user and req.token
Protect(p, route, t) ==
    /\ preq[p].pc = "idle"
    /\ IF p = 1 THEN TRUE ELSE preq[p - 1].pc # "idle"
    /\ IF Validate(t) # ""
       THEN preq' = [preq EXCEPT ![p] =
                [pc |-> "done", route |-> route, token |-> t, userId |-> Null,
                 status |-> 401, error |-> Validate(t)]]
       ELSE preq' = [preq EXCEPT ![p] =
                [pc |-> "protected", route |-> route, token |-> t,
                 userId |-> t[1].id, status |-> 0, error |-> ""]]
    /\ UNCHANGED <<ledgerVars, journalVars, issued, revoked, lresp>>

\* router.get('/me', protect, ...)
GetMe(p) ==
    /\ preq[p].pc = "protected"
    /\ preq[p].route = "GET /me"
    /\ preq' = [preq EXCEPT ![p].pc = "done", ![p].status = 200]
    /\ UNCHANGED <<ledgerVars, journalVars, issued, revoked, lresp>>

\* blacklistToken(token)
BlacklistToken(t) == revoked' = revoked \cup {t}

LogoutKeepsToken(p) ==
    /\ preq[p].pc = "protected"
    /\ preq[p].route = "POST /logout"
    /\ preq' = [preq EXCEPT ![p].pc = "done", ![p].status = 200]
    /\ UNCHANGED <<ledgerVars, journalVars, issued, revoked, lresp>>

\* router.post('/logout', protect, ...)
Logout(p) ==
    /\ preq[p].pc = "protected"
    /\ preq[p].route = "POST /logout"
    /\ BlacklistToken(preq[p].token[1])
    /\ preq' = [preq EXCEPT ![p].pc = "done", ![p].status = 200]
    /\ UNCHANGED <<ledgerVars, journalVars, issued, lresp>>

----------------------------------------------------------------------------
Init ==
    /\ schools = <<>>
    /\ adoptions = {}
    /\ areq = [r \in Reqs |-> IdleReq]
    /\ sresp = NoResp
    /\ journal = {}
    /\ nextEntry = 0
    /\ now = 0
    /\ dreq = [d \in Dels |-> IdleDel]
    /\ jresp = NoJournalResp
    /\ issued = {}
    /\ revoked = {}
    /\ lresp = NoLoginResp
    /\ preq = [p \in AuthReqs |-> IdleAuth]

\* The School Registry and the Adoption Ledger.  A POST /schools that fails
\* writes nothing, so only the ones that create a school are taken here;
\* NextRegistry takes them all.
Next ==
    \/ \E u \in Users, body \in SchoolBodies :
           PostSchools(u, body) /\ sresp'.status = 201
    \/ \E r \in Reqs, u \in Users, sid \in {None} \cup {Some(i) : i \in SchoolIds} :
           PostAdoptionsFind(r, u, sid)
    \/ \E r \in Reqs : PostAdoptionsCreate(r)
    \/ \E r \in Reqs : PostAdoptionsSave(r)
    \/ \E r \in Reqs : PostAdoptionsRespond(r)

Spec == Init /\ [][Next]_vars

\* The Journal Store: appending and listing
NextJournal ==
    \/ Tick
    \/ \E u \in Users, t \in {None} \cup {Some(x) : x \in RawTexts},
          sid \in {None, Some(1)} : PostJournal(u, t, sid)
    \/ \E u \in Users, sid \in {None, Some(1)}, lim \in {None, Some(1)} :
          GetJournal(u, sid, lim)

SpecJournal == Init /\ [][NextJournal]_vars

\* The Journal Store: appending and removing, with removals interleaved
NextDelete ==
    \/ \E u \in Users : PostJournal(u, Some(<<"b">>), None)
    \/ \E d \in Dels, u \in Users, id \in EntryIds : DeleteJournalFind(d, u, id)
    \/ \E d \in Dels : DeleteJournalDelete(d)

SpecDelete == Init /\ [][NextDelete]_vars

\* The Token Issuer/Validator.  A client presents no token, a token /login
\* issued, or one it made up.
NextAuth ==
    \/ Tick
    \/ \E b \in LoginBodies : Login(b[1], b[2])
    \/ \E p \in AuthReqs, route \in {"GET /me", "POST /logout"},
          t \in {None, Some(Forged)} \cup {Some(x) : x \in issued} :
          Protect(p, route, t)
    \/ \E p \in AuthReqs : GetMe(p)
    \/ \E p \in AuthReqs : Logout(p)

SpecAuth == Init /\ [][NextAuth]_vars

\* The School Registry alone, with every outcome of POST /schools
NextRegistry == \E u \in Users, body \in SchoolBodies : PostSchools(u, body)

SpecRegistry == Init /\ [][NextRegistry]_vars

\* The Adoption Ledger over schools created without the adopted and adopterId
\* keys: every adopted flag and every adopterId is then the work of
\* POST /adoptions.
PlainBodies == {b \in SchoolBodies : b.adopted = None /\ b.adopterId = None}

NextClaims ==
    \/ \E u \in Users, body \in PlainBodies :
           PostSchools(u, body) /\ sresp'.status = 201
    \/ \E r \in Reqs, u \in Users, sid \in {None} \cup {Some(i) : i \in SchoolIds} :
           PostAdoptionsFind(r, u, sid)
    \/ \E r \in Reqs : PostAdoptionsCreate(r)
    \/ \E r \in Reqs : PostAdoptionsSave(r)
    \/ \E r \in Reqs : PostAdoptionsRespond(r)

SpecClaims == Init /\ [][NextClaims]_vars

----------------------------------------------------------------------------
(* Properties of the School Registry and the Adoption Ledger *)

Done(r) == areq[r].pc = "done"

\* The request read the school while its adopted flag was false.
SawUnclaimed(r) ==
    \/ areq[r].pc \in {"found", "created", "saved"}
    \/ Done(r) /\ areq[r].status = 201
    \/ Done(r) /\ areq[r].error = "You have already adopted this school"

SameTarget(r1, r2) ==
    /\ areq[r1].schoolId # None
    /\ areq[r1].schoolId = areq[r2].schoolId

\* r1 and r2 are the two requests claiming their school: the school existed
\* for both, the earlier of them read it unclaimed (the later one read it
\* either before or after the earlier one's School update), both have
\* responded, and no other request of the users involved read that school
\* unclaimed.
RacedPair(r1, r2) ==
    /\ r1 # r2
    /\ SameTarget(r1, r2)
    /\ Done(r1) /\ Done(r2)
    /\ areq[r1].status # 404 /\ areq[r2].status # 404
    /\ SawUnclaimed(r1) \/ SawUnclaimed(r2)
    /\ \A r3 \in Reqs \ {r1, r2} :
          ~(/\ SameTarget(r1, r3)
            /\ SawUnclaimed(r3)
            /\ areq[r3].userId \in {areq[r1].userId, areq[r2].userId})

OneWinner(r1, r2) ==
    \/ areq[r1].status = 201 /\ areq[r2].status = 400
    \/ areq[r1].status = 400 /\ areq[r2].status = 201

\* C1: every school has adopted = true exactly when adopterId is not null.
C1_AdoptedIffAdopter ==
    \A i \in DOMAIN schools :
        schools[i].adopted <=> schools[i].adopterId # Null

\* The claim workflow itself writes the two fields together: whenever a step
\* changes an existing School, the result has adopted = true and an adopter.
ClaimWritesBothFields ==
    [][\A i \in DOMAIN schools :
          schools'[i] # schools[i] =>
              schools'[i].adopted /\ schools'[i].adopterId # Null]_vars

\* C2: two different users racing for the same unclaimed school end with one
\* 201 and one 400.
C2_RaceOneWinner ==
    \A r1, r2 \in Reqs :
        RacedPair(r1, r2) /\ areq[r1].userId # areq[r2].userId
            => OneWinner(r1, r2)

\* C3: at most one Adoption per (userId, schoolId), and two simultaneous
\* claims of one user for the same unclaimed school end with one 201 and one
\* 400.
C3_UniquePairOneWinner ==
    /\ \A a, b \in adoptions :
          a.userId = b.userId /\ a.schoolId = b.schoolId => a = b
    /\ \A r1, r2 \in Reqs :
          RacedPair(r1, r2) /\ areq[r1].userId = areq[r2].userId
              => OneWinner(r1, r2)

C3_Witness ==
    \E r1, r2 \in Reqs :
        /\ RacedPair(r1, r2)
        /\ areq[r1].userId = areq[r2].userId
        /\ areq[r1].status = 201
        /\ areq[r2].error = "You have already adopted this school"

\* C4: no school has Adoption records of two different users.
C4_OneAdopterPerSchool ==
    \A a, b \in adoptions :
        a.schoolId = b.schoolId => a.userId = b.userId

\* C5: a claim by U that reads a school adopted by another user V responds
\* 400 "already adopted" and writes neither collection.
C5_AdoptedByOtherRejected ==
    [][\A r \in Reqs :
          (/\ areq[r].pc = "idle"
           /\ areq'[r].pc # "idle"
           /\ areq'[r].schoolId # None
           /\ areq'[r].schoolId[1] \in DOMAIN schools
           /\ schools[areq'[r].schoolId[1]].adopted
           /\ schools[areq'[r].schoolId[1]].adopterId \notin {Null, areq'[r].userId})
          => /\ areq'[r].pc = "done"
             /\ areq'[r].status = 400
             /\ areq'[r].error = "School is already adopted by another user"
             /\ adoptions' = adoptions
             /\ schools' = schools]_vars

C5_Witness ==
    \E r \in Reqs :
        /\ Done(r)
        /\ areq[r].error = "School is already adopted by another user"
        /\ schools[areq[r].schoolId[1]].adopted
        /\ schools[areq[r].schoolId[1]].adopterId \notin {Null, areq[r].userId}
        /\ \E a \in adoptions :
              a.schoolId = areq[r].schoolId[1] /\ a.userId # areq[r].userId

\* C6: a claim issued while the user's own Adoption of that school exists
\* never inserts, never saves the School, and responds 400.
C6_ReAdoptFails ==
    \A r \in Reqs :
        areq[r].dup =>
            /\ areq[r].pc \in {"found", "done"}
            /\ Done(r) => areq[r].status = 400
            /\ Cardinality({a \in adoptions :
                   a.userId = areq[r].userId /\ a.schoolId = areq[r].schoolId[1]}) = 1

\* The re-adoption arrived before the first claim's School update and was
\* stopped by the unique index.
C6_Witness ==
    \E r \in Reqs :
        /\ areq[r].dup
        /\ Done(r)
        /\ areq[r].error = "You have already adopted this school"

\* No POST /adoptions request is between its first read and its response.
Quiescent == \A r \in Reqs : areq[r].pc \in {"idle", "done"}

HasAdoption(u, s) == \E a \in adoptions : a.userId = u /\ a.schoolId = s

\* C11: whenever no POST /adoptions request is in flight, an Adoption (U, S)
\* exists exactly when S.adopted is true and S.adopterId = U, for every
\* school S and user U.
C11_LedgerRegistryAgree ==
    Quiescent =>
        \A s \in DOMAIN schools, u \in Users :
            HasAdoption(u, s) <=> (schools[s].adopted /\ schools[s].adopterId = u)

\* The second half of C11: a step that changes the adopterId of a school
\* finds it null.
AdopterIdNeverOverwritten ==
    [][\A s \in DOMAIN schools :
          schools'[s].adopterId # schools[s].adopterId =>
              schools[s].adopterId = Null]_vars

\* The first half of C11 alone: at rest, the adopter named by the School is
\* a user that has an Adoption of it.
AdopterHasAdoption ==
    Quiescent =>
        \A s \in DOMAIN schools :
            schools[s].adopted => HasAdoption(schools[s].adopterId, s)

\* C9: a duplicate name and an invalid body are both answered with 400, and
\* add no school.
C9_CreateFailuresAre400 ==
    [][(sresp' # sresp /\ sresp'.message \in {"E11000", "ValidationError"})
          => sresp'.status = 400 /\ schools' = schools]_vars

----------------------------------------------------------------------------
(* Properties of the Journal Store *)

C10_JournalRoundTrip ==
    [][/\ (/\ jresp' # jresp
           /\ jresp'.route = "POST /journal"
           /\ jresp'.entryText # None
           /\ Trim(jresp'.entryText[1]) = <<>>)
          => jresp'.status = 400 /\ journal' = journal
       /\ (/\ jresp'.route = "POST /journal"
           /\ jresp' # jresp
           /\ jresp'.entryText # None
           /\ Trim(jresp'.entryText[1]) # <<>>)
          => jresp'.status = 201
       /\ (/\ jresp.route = "POST /journal"
           /\ jresp.status = 201
           /\ jresp'.route = "GET /journal"
           /\ jresp'.userId = jresp.userId
           /\ jresp'.limit = None
           /\ jresp'.schoolId \in {None, jresp.entry.schoolId})
          => \E i \in DOMAIN jresp'.entries :
                /\ jresp'.entries[i].id = jresp.entry.id
                /\ jresp'.entries[i].entryText = Trim(jresp.entryText[1])
                /\ jresp'.entries[1].date = jresp'.entries[i].date
                /\ \A j \in DOMAIN jresp'.entries :
                      jresp'.entries[j].date <= jresp'.entries[i].date]_vars

\* The listing holds the latest entry, stored as "a" from the text " a ",
\* beside an older one.
C10_Witness ==
    /\ jresp.route = "GET /journal"
    /\ jresp.limit = None
    /\ Len(jresp.entries) >= 2
    /\ \E i \in DOMAIN jresp.entries :
          /\ jresp.entries[i].id = nextEntry
          /\ jresp.entries[i].entryText = <<"a">>

----------------------------------------------------------------------------
(* Properties of the Token Issuer/Validator *)

====
